---------------------------- MODULE Spec2Model ----------------------------
(***************************************************************************)
(* Model of check_order_shopee: the order renderer (order_service.py), the *)
(* tracking normalizer (tracking_service.py) and the conversation router   *)
(* (telegram_bot.py).                                                      *)
(*                                                                         *)
(* Text is a sequence of Unicode code points, so that len(), slicing,      *)
(* strip(), split() and join() are computed as Python computes them.       *)
(* A dict is a function from a set of string keys; a missing key and a     *)
(* None value are the same thing to every lookup the code makes.           *)
(***************************************************************************)
EXTENDS Integers, Sequences, FiniteSets, TLC

VARIABLES
    data,       \* formatter: the payload handed to format_orders_for_telegram
    messages,   \* formatter: the list it returned
    fpc,        \* formatter: "init" before the call, "done" after it
    conv,       \* router: ConversationHandler state of every session
    queue,      \* router: updates fetched by polling, not yet processed
    running,    \* router: the receive_input coroutine awaiting its lookup, or NoTask
    log         \* router: the update handled last, and what its handler did so far

vars == <<data, messages, fpc, conv, queue, running, log>>

fmtVars == <<data, messages, fpc>>
botVars == <<conv, queue, running, log>>

-----------------------------------------------------------------------------
(* Bounds of the model *)

\* most orders in one account of a payload (the per-account cap is 5)
MaxOrders == 6
\* most products in one order of a payload (the per-order cap is 5)
MaxProducts == 6
\* length of the one long field value of the payloads (the budget is 3500)
LongLen == 3600

-----------------------------------------------------------------------------
(* Program constants *)

max_orders_per_cookie == 5
max_products_per_order == 5
MSG_BUDGET == 3500
NAME_TRIM == 160
VARIATION_TRIM == 80
COOKIE_PREVIEW == 20

-----------------------------------------------------------------------------
(* Text primitives (Python str) *)

\* "\n", the separator of every join of the renderer
NL == <<10>>

\* str.isspace() on the characters the model uses
IsSpace(c) == c \in {9, 10, 11, 12, 13, 32}

\* c * n
Rep(c, n) == [i \in 1..n |-> c]

\* s[:n]
Prefix(s, n) == SubSeq(s, 1, IF n < Len(s) THEN n ELSE Len(s))

\* s[n:]
Suffix(s, n) == SubSeq(s, n + 1, Len(s))

\* s.startswith(p)
StartsWith(s, p) == Len(p) <= Len(s) /\ \A i \in 1..Len(p) : s[i] = p[i]

\* s.endswith(p)
EndsWith(s, p) ==
    Len(p) <= Len(s) /\ \A i \in 1..Len(p) : s[Len(s) - Len(p) + i] = p[i]

\* s.strip()
Strip(s) ==
    IF \A i \in 1..Len(s) : IsSpace(s[i]) THEN <<>>
    ELSE LET a == CHOOSE i \in 1..Len(s) :
                     ~IsSpace(s[i]) /\ \A j \in 1..(i - 1) : IsSpace(s[j])
             k == CHOOSE k \in 0..(Len(s) - 1) :
                     ~IsSpace(s[Len(s) - k]) /\ \A j \in 0..(k - 1) : IsSpace(s[Len(s) - j])
         IN  SubSeq(s, a, Len(s) - k)

\* chr.upper() / chr.lower() on ASCII letters
UpperChar(c) == IF c \in 97..122 THEN c - 32 ELSE c
LowerChar(c) == IF c \in 65..90 THEN c + 32 ELSE c
Upper(s) == [i \in 1..Len(s) |-> UpperChar(s[i])]
Lower(s) == [i \in 1..Len(s) |-> LowerChar(s[i])]

\* sep.join(parts)
RECURSIVE Join(_, _)
Join(sep, parts) ==
    IF Len(parts) = 0 THEN <<>>
    ELSE IF Len(parts) = 1 THEN parts[1]
    ELSE parts[1] \o sep \o Join(sep, Tail(parts))

\* s.split(chr(c))
RECURSIVE Split(_, _)
Split(s, c) ==
    IF \A i \in 1..Len(s) : s[i] # c THEN <<s>>
    ELSE IF Len(s) = 1 THEN << <<>>, <<>> >>
    ELSE LET m == Len(s) \div 2
             l == Split(SubSeq(s, 1, m), c)
             r == Split(SubSeq(s, m + 1, Len(s)), c)
         IN  \* the pieces of the two halves, joined at the cut
             SubSeq(l, 1, Len(l) - 1) \o <<l[Len(l)] \o r[1]>> \o Tail(r)

\* str(n) for n >= 0
RECURSIVE IntToStr(_)
IntToStr(n) ==
    IF n < 10 THEN <<48 + n>> ELSE IntToStr(n \div 10) \o <<48 + (n % 10)>>

\* [x for x in xs if x]
RECURSIVE NonEmpty(_)
NonEmpty(xs) ==
    IF Len(xs) = 0 THEN <<>>
    ELSE IF Head(xs) = <<>> THEN NonEmpty(Tail(xs))
    ELSE <<Head(xs)>> \o NonEmpty(Tail(xs))

\* [f(x) for x in xs]
StripAll(xs) == [i \in 1..Len(xs) |-> Strip(xs[i])]

EmptyDict == <<>>

-----------------------------------------------------------------------------
(* order_service.py: literals of the rendered text.  The comments give the *)
(* text without its diacritics and emoji.                                  *)

\* "X Khong co du lieu don hang. (API tra rong)"
NoDataMsg == <<10060, 32, 75, 104, 244, 110, 103, 32, 99, 243, 32, 100, 7919, 32, 108, 105, 7879, 117, 32, 273, 417, 110, 32, 104, 224, 110, 103, 46, 32, 40, 65, 80, 73, 32, 116, 114, 7843, 32, 114, 7895, 110, 103, 41>>
\* "(cookie) Cookie: `"
CookiePrefix == <<127850, 32, 67, 111, 111, 107, 105, 101, 58, 32, 96>>
\* "...`\n"
CookieSuffix == <<46, 46, 46, 96, 10>>
\* "X Khong co don hang."
NoOrdersLine == <<10060, 32, 75, 104, 244, 110, 103, 32, 99, 243, 32, 273, 417, 110, 32, 104, 224, 110, 103, 46>>
\* "(box) Tong don: "
TotalPrefix == <<128230, 32, 84, 7893, 110, 103, 32, 273, 417, 110, 58, 32>>
\* "\n(pin) DON HANG "
OrderTitlePrefix == <<10, 128204, 32, 272, 416, 78, 32, 72, 192, 78, 71, 32>>
\* " :"
OrderTitleSuffix == <<32, 58>>
\* "(receipt) Order ID: "
OrderIdPrefix == <<129534, 32, 79, 114, 100, 101, 114, 32, 73, 68, 58, 32>>
\* "(i) THONG TIN"
InfoTitle == <<8505, 65039, 32, 84, 72, 212, 78, 71, 32, 84, 73, 78>>
\* "(person) Nguoi nhan: "
NamePrefix == <<128100, 32, 78, 103, 432, 7901, 105, 32, 110, 104, 7853, 110, 58, 32>>
\* "(phone) SDT: "
PhonePrefix == <<128222, 32, 83, 68, 84, 58, 32>>
\* "(pin) Dia chi: "
AddrPrefix == <<128205, 32, 272, 7883, 97, 32, 99, 104, 7881, 58, 32>>
\* "TP. "
CityPrefix == <<84, 80, 46, 32>>
\* "tp", "thanh pho", "tinh"
CityWords == {<<116, 112>>, <<116, 104, 224, 110, 104, 32, 112, 104, 7889>>, <<116, 7881, 110, 104>>}
\* "\n(gift) San pham: "
ProductInline == <<10, 127873, 32, 83, 7843, 110, 32, 112, 104, 7849, 109, 58, 32>>
\* "\n(gift) San pham:"
ProductTitle == <<10, 127873, 32, 83, 7843, 110, 32, 112, 104, 7849, 109, 58>>
\* "San pham "
ProductNumPrefix == <<83, 7843, 110, 32, 112, 104, 7849, 109, 32>>
\* " : "
ProductNumSep == <<32, 58, 32>>
\* "(... +"
MorePrefix == <<40, 8230, 32, 43>>
\* " san pham khac)"
MoreSuffix == <<32, 115, 7843, 110, 32, 112, 104, 7849, 109, 32, 107, 104, 225, 99, 41>>
\* "\n(truck) Don vi van chuyen: "
CarrierPrefix == <<10, 128666, 32, 272, 417, 110, 32, 118, 7883, 32, 118, 7853, 110, 32, 99, 104, 117, 121, 7875, 110, 58, 32>>
\* "(receipt) MVD: `"
MvdPrefix == <<129534, 32, 77, 86, 68, 58, 32, 96>>
\* "`"
Backtick == <<96>>
\* "(chart) Trang thai: "
StatusPrefix == <<128202, 32, 84, 114, 7841, 110, 103, 32, 116, 104, 225, 105, 58, 32>>
\* "---------------------------------------"
Separator == Rep(45, 39)
\* "... (an "
HiddenPrefix == <<8230, 32, 40, 7849, 110, 32>>
\* " don, tang gioi han neu muon)"
HiddenSuffix == <<32, 273, 417, 110, 44, 32, 116, 259, 110, 103, 32, 103, 105, 7899, 105, 32, 104, 7841, 110, 32, 110, 7871, 117, 32, 109, 117, 7889, 110, 41>>
\* "(i) Tap vao MVD de copy nhanh."
Footer == <<8505, 65039, 32, 84, 97, 112, 32, 118, 224, 111, 32, 77, 86, 68, 32, 273, 7875, 32, 99, 111, 112, 121, 32, 110, 104, 97, 110, 104, 46>>
\* the ellipsis character
Ellipsis == <<8230>>
\* "Shopee Express"
ShopeeExpress == <<83, 104, 111, 112, 101, 101, 32, 69, 120, 112, 114, 101, 115, 115>>
\* "Giao Hang Nhanh"
GiaoHangNhanh == <<71, 105, 97, 111, 32, 72, 224, 110, 103, 32, 78, 104, 97, 110, 104>>
\* "SPXVN", "SPX", "GY"
PfxSPXVN == <<83, 80, 88, 86, 78>>
PfxSPX == <<83, 80, 88>>
PfxGY == <<71, 89>>

-----------------------------------------------------------------------------
(* order_service.py: helpers *)

\* _get(d, keys, default): the first key present with a non-empty value
Get(d, keys, default) ==
    LET hit == {i \in 1..Len(keys) : keys[i] \in DOMAIN d /\ d[keys[i]] # <<>>}
    IN  IF hit = {} THEN default
        ELSE d[keys[CHOOSE i \in hit : \A j \in hit : i <= j]]

\* d.get(key, {}) or {}   and   d.get(key, []) or []
GetOr(d, key) == IF key \in DOMAIN d THEN d[key] ELSE <<>>

\* _safe_trim(s, n)
SafeTrim(s, n) == IF Len(s) <= n THEN s ELSE Prefix(s, n) \o Ellipsis

\* _split_address_for_ui(full_address): <<main, city>>
SplitAddressForUi(full_address) ==
    LET s == Strip(full_address)
        parts == NonEmpty(StripAll(Split(s, 44)))
    IN  IF s = <<>> THEN <<(<<>>), (<<>>)>>
        ELSE IF Len(parts) >= 2
             THEN <<Strip(Join(<<44, 32>>, SubSeq(parts, 1, Len(parts) - 1))),
                    Strip(parts[Len(parts)])>>
             ELSE <<s, (<<>>)>>

\* _detect_carrier_from_tracking(tracking_id)
DetectCarrierFromTracking(tracking_id) ==
    LET t == Upper(Strip(tracking_id))
    IN  IF t = <<>> THEN <<>>
        ELSE IF StartsWith(t, PfxSPXVN) THEN ShopeeExpress
        ELSE IF StartsWith(t, PfxSPX) THEN ShopeeExpress
        ELSE IF StartsWith(t, PfxGY) THEN GiaoHangNhanh
        ELSE <<>>

-----------------------------------------------------------------------------
(* order_service.py: format_orders_for_telegram *)

\* one entry of prod_lines: the trimmed name, then " [variation]" if any
ProdLine(p) ==
    LET pname == SafeTrim(Get(p, <<"name", "product_name", "title">>, <<>>), NAME_TRIM)
        variation == SafeTrim(Get(p, <<"model_name", "variation", "classification", "model">>, <<>>),
                              VARIATION_TRIM)
    IN  IF variation # <<>> THEN pname \o <<32, 91>> \o variation \o <<93>> ELSE pname

\* the "(... +N san pham khac)" line
MoreLine(n) == MorePrefix \o IntToStr(n) \o MoreSuffix

\* ProdLines with the summary reporting every product instead of the hidden ones
ProdLinesCountsAll(products) ==
    LET shownN == IF Len(products) < max_products_per_order
                  THEN Len(products) ELSE max_products_per_order
    IN  [i \in 1..shownN |-> ProdLine(products[i])]
        \o (IF Len(products) > max_products_per_order
            THEN <<MoreLine(Len(products))>>
            ELSE <<>>)

\* prod_lines of an order: products[:max_products_per_order], then the summary
ProdLines(products) ==
    LET shownN == IF Len(products) < max_products_per_order
                  THEN Len(products) ELSE max_products_per_order
    IN  [i \in 1..shownN |-> ProdLine(products[i])]
        \o (IF Len(products) > max_products_per_order
            THEN <<MoreLine(Len(products) - max_products_per_order)>>
            ELSE <<>>)

\* the products section of block_parts
ProductParts(prod_lines) ==
    IF Len(prod_lines) = 0 THEN <<>>
    ELSE IF Len(prod_lines) = 1 THEN <<ProductInline \o prod_lines[1]>>
    ELSE <<ProductTitle>>
         \o [i \in 1..Len(prod_lines) |->
                ProductNumPrefix \o IntToStr(i) \o ProductNumSep \o prod_lines[i]]

\* order.get("product_info", []) or order.get("products", []) or []
ProductsOf(order) ==
    IF GetOr(order, "product_info") # <<>> THEN GetOr(order, "product_info")
    ELSE GetOr(order, "products")

\* a line that is appended only when its value is not empty
Opt(value, line) == IF value # <<>> THEN <<line>> ELSE <<>>

\* block_parts of the order at position idx
BlockParts(order, idx) ==
    LET order_id == Get(order, <<"order_id", "orderid", "id">>, <<>>)
        status == Get(order, <<"tracking_info_description", "status_description",
                               "status", "order_status">>, <<>>)
        tracking == Get(order, <<"tracking_number", "tracking_no", "tracking">>, <<>>)
        address == GetOr(order, "address")
        name == Get(address, <<"shipping_name", "name", "receiver_name">>, <<>>)
        phone == Get(address, <<"shipping_phone", "phone", "receiver_phone">>, <<>>)
        full_address == Get(address, <<"shipping_address", "address", "full_address">>, <<>>)
        split == SplitAddressForUi(full_address)
        addr_main == split[1]
        addr_city == split[2]
        shipping == GetOr(order, "shipping")
        carrier_api == IF Get(shipping, <<"shipping_carrier", "carrier">>, <<>>) # <<>>
                       THEN Get(shipping, <<"shipping_carrier", "carrier">>, <<>>)
                       ELSE Get(order, <<"shipping_carrier">>, <<>>)
        tracking_id == Get(order, <<"tracking_number">>, tracking)
        carrier_detected == DetectCarrierFromTracking(tracking_id)
        carrier == IF carrier_detected # <<>> THEN carrier_detected ELSE carrier_api
        prod_lines == ProdLines(ProductsOf(order))
        prefix == IF \E w \in CityWords : StartsWith(Lower(addr_city), w)
                  THEN <<>> ELSE CityPrefix
    IN  <<OrderTitlePrefix \o IntToStr(idx) \o OrderTitleSuffix>>
        \o Opt(order_id, OrderIdPrefix \o order_id)
        \o <<InfoTitle>>
        \o Opt(name, NamePrefix \o name)
        \o Opt(phone, PhonePrefix \o phone)
        \o Opt(addr_main, AddrPrefix \o addr_main)
        \o Opt(addr_city, prefix \o addr_city)
        \o ProductParts(prod_lines)
        \o Opt(carrier, CarrierPrefix \o carrier)
        \o Opt(tracking_id, MvdPrefix \o tracking_id \o Backtick)
        \o Opt(status, StatusPrefix \o status)

\* block_text
BlockText(order, idx) == Strip(Join(NL, NonEmpty(BlockParts(order, idx))))

\* the smaller of two numbers
MinOf(a, b) == IF a < b THEN a ELSE b

\* AfterBlock without the test for the last shown order
AfterBlockAlsoLast(n, shown, idx) ==
    IF n > 1 /\ shown < max_orders_per_cookie THEN Separator ELSE <<>>

\* what follows the block of order idx in blocks: the separator, or ""
AfterBlock(n, shown, idx) ==
    IF n > 1 /\ shown < max_orders_per_cookie /\ idx < MinOf(n, max_orders_per_cookie)
    THEN Separator ELSE <<>>

\* the loop over the orders of one account: [blocks, shown] when it ends
RECURSIVE OrderLoop(_, _, _, _)
OrderLoop(orders, idx, shown, blocks) ==
    IF idx > Len(orders) \/ shown >= max_orders_per_cookie
    THEN [blocks |-> blocks, shown |-> shown]
    ELSE OrderLoop(orders, idx + 1, shown + 1,
                   blocks \o <<BlockText(orders[idx], idx),
                               AfterBlock(Len(orders), shown, idx)>>)

\* the credential preview line
CookieLine(cookie) == CookiePrefix \o Prefix(cookie, COOKIE_PREVIEW) \o CookieSuffix

\* blocks of an account that has orders
AccountBlocks(account) ==
    LET orders == GetOr(account, "orderDetails")
        header == CookieLine(GetOr(account, "cookie")) \o TotalPrefix \o IntToStr(Len(orders))
        loop == OrderLoop(orders, 1, 0, <<header>>)
    IN  loop.blocks
        \o (IF Len(orders) > loop.shown
            THEN <<HiddenPrefix \o IntToStr(Len(orders) - loop.shown) \o HiddenSuffix>>
            ELSE <<>>)
        \o <<Footer>>

\* full_text of an account that has orders
FullText(account) == Strip(Join(NL, AccountBlocks(account)))

\* SplitMessages cutting one character past the budget
RECURSIVE SplitMessagesLongCut(_)
SplitMessagesLongCut(full_text) ==
    IF Len(full_text) > MSG_BUDGET
    THEN <<Prefix(full_text, MSG_BUDGET + 1)>>
         \o SplitMessagesLongCut(Suffix(full_text, MSG_BUDGET + 1))
    ELSE <<full_text>>

\* SplitMessages continuing one character after the cut
RECURSIVE SplitMessagesSkip(_)
SplitMessagesSkip(full_text) ==
    IF Len(full_text) > MSG_BUDGET
    THEN <<Prefix(full_text, MSG_BUDGET)>>
         \o SplitMessagesSkip(Suffix(full_text, MSG_BUDGET + 1))
    ELSE <<full_text>>

\* SplitMessages cutting while the text is at least as long as the budget
RECURSIVE SplitMessagesAtBudget(_)
SplitMessagesAtBudget(full_text) ==
    IF Len(full_text) >= MSG_BUDGET
    THEN <<Prefix(full_text, MSG_BUDGET)>> \o SplitMessagesAtBudget(Suffix(full_text, MSG_BUDGET))
    ELSE <<full_text>>

\* the while loop that cuts full_text into messages
RECURSIVE SplitMessages(_)
SplitMessages(full_text) ==
    IF Len(full_text) > MSG_BUDGET
    THEN <<Prefix(full_text, MSG_BUDGET)>> \o SplitMessages(Suffix(full_text, MSG_BUDGET))
    ELSE <<full_text>>

\* the messages one account contributes
AccountMessages(account) ==
    IF GetOr(account, "orderDetails") = <<>>
    THEN <<CookieLine(GetOr(account, "cookie")) \o NoOrdersLine>>
    ELSE SplitMessages(FullText(account))

\* messages of accounts[1..n], in order
RECURSIVE AllMessages(_, _)
AllMessages(accounts, n) ==
    IF n = 0 THEN <<>>
    ELSE AllMessages(accounts, n - 1) \o AccountMessages(accounts[n])

format_orders_for_telegram(d) ==
    LET accounts == GetOr(d, "allOrderDetails")
    IN  IF accounts = <<>> THEN <<NoDataMsg>>
        ELSE AllMessages(accounts, Len(accounts))

-----------------------------------------------------------------------------
(* Payloads handed to the renderer.  Field values are drawn from the       *)
(* letters a, b, digits, "_", ",", " " ; keys are drawn from the aliases   *)
(* the code accepts.                                                       *)

\* "aaa...a", n characters
A(n) == Rep(97, n)

\* "a_b"
TxtAUnderB == <<97, 95, 98>>

\* product i of an order: short names, names with a variation, names and
\* variations longer than the trim lengths, and a product without a name
Product(i) ==
    CASE i % 4 = 1 -> [name |-> <<97, 48 + i>>]
      [] i % 4 = 2 -> [product_name |-> TxtAUnderB, variation |-> <<118>>]
      [] i % 4 = 3 -> [title |-> A(NAME_TRIM + 1), model |-> A(VARIATION_TRIM + 1)]
      [] OTHER     -> [name |-> <<>>, model_name |-> <<118, 95>>]

ProductList(n) == [i \in 1..n |-> Product(i)]

\* an order with every field under its first key, and n products
FullOrder(n) ==
    [order_id |-> <<49, 55>>,
     tracking_number |-> <<83, 80, 88, 86, 78, 49>>,
     status_description |-> TxtAUnderB,
     address |-> [shipping_name |-> TxtAUnderB,
                  shipping_phone |-> <<48, 57>>,
                  shipping_address |-> <<32, 97, 44, 32, 98, 32, 44, 44, 32, 84, 112, 32, 99, 32>>],
     shipping |-> [shipping_carrier |-> <<120>>],
     product_info |-> ProductList(n)]

\* an order with its fields under later aliases, a carrier only the API
\* names, an address without a comma, and n products
AliasOrder(n) ==
    [id |-> <<55>>,
     tracking_number |-> <<>>,
     tracking_no |-> <<86, 78, 49>>,
     order_status |-> <<111, 107>>,
     address |-> [receiver_name |-> <<98>>, full_address |-> <<97, 32, 98>>],
     shipping |-> [carrier |-> <<>>],
     shipping_carrier |-> <<74, 95, 84>>,
     product_info |-> <<>>,
     products |-> ProductList(n)]

\* the placeholder the upstream returns for an expired credential
PlaceholderOrder ==
    [order_id |-> <<>>, status |-> <<119, 97, 105, 116>>, product_info |-> <<[name |-> <<>>]>>]

\* an order with only an ID
IdOnlyOrder == [orderid |-> <<49>>]

\* an order whose recipient name alone exceeds the budget
LongOrder == [order_id |-> <<49>>, address |-> [name |-> A(LongLen)], tracking |-> <<103, 121, 49>>]

ProductOrders == {FullOrder(n) : n \in 0..MaxProducts} \cup {AliasOrder(n) : n \in 0..MaxProducts}

\* "SPC_ST=" and 23 characters: longer than the preview
LongCookie == <<83, 80, 67, 95, 83, 84, 61>> \o A(23)
\* "ck"
ShortCookie == <<99, 107>>

\* an account of one order whose recipient name has n characters, and the
\* n that makes its rendered text exactly as long as the budget
NamedAccount(n) ==
    [cookie |-> LongCookie, orderDetails |-> <<[order_id |-> <<49>>, address |-> [name |-> A(n)]]>>]
ExactName == MSG_BUDGET - Len(FullText(NamedAccount(1))) + 1

Accounts ==
    {[cookie |-> c, orderDetails |-> [i \in 1..n |-> o]] :
        c \in {LongCookie, ShortCookie}, n \in 0..MaxOrders,
        o \in ProductOrders \cup {PlaceholderOrder, IdOnlyOrder}}
    \cup {[cookie |-> LongCookie, orderDetails |-> [i \in 1..n |-> LongOrder]] :
            n \in {1, 2, MaxOrders}}
    \cup {[orderDetails |-> <<PlaceholderOrder, FullOrder(2), LongOrder, AliasOrder(MaxProducts)>>]}
    \cup {NamedAccount(ExactName), NamedAccount(ExactName + MSG_BUDGET)}

\* accounts that share a payload with another one
SecondAccounts ==
    {[cookie |-> ShortCookie, orderDetails |-> <<>>],
     [cookie |-> ShortCookie, orderDetails |-> <<IdOnlyOrder, PlaceholderOrder>>],
     [cookie |-> LongCookie, orderDetails |-> <<LongOrder>>]}

Payloads ==
    {EmptyDict, [allOrderDetails |-> <<>>]}
    \cup {[allOrderDetails |-> <<a>>] : a \in Accounts}
    \cup {[allOrderDetails |-> <<a, b>>] : a \in Accounts, b \in SecondAccounts}

-----------------------------------------------------------------------------
(* The renderer applied to a payload *)

Sessions == {"s1", "s2"}
NoTask == [session |-> "none", lookup |-> "none", arg |-> <<>>]
NoEntry ==
    [session |-> "none", kind |-> "none", text |-> <<>>, handler |-> "none",
     events |-> <<>>, done |-> TRUE, resp |-> [kind |-> "none", error |-> <<>>, j |-> EmptyDict]]

InitBot ==
    /\ conv = [s \in Sessions |-> "END"]
    /\ queue = <<>>
    /\ running = NoTask
    /\ log = NoEntry

InitFmt ==
    /\ data \in Payloads
    /\ messages = <<>>
    /\ fpc = "init"
    /\ InitBot

\* messages = format_orders_for_telegram(data, max_orders_per_cookie=5)
Format ==
    /\ fpc = "init"
    /\ messages' = format_orders_for_telegram(data)
    /\ fpc' = "done"
    /\ UNCHANGED <<data, botVars>>

NextFmt == Format

SpecFmt == InitFmt /\ [][NextFmt]_vars

-----------------------------------------------------------------------------
(* tracking_service.py: carrier detection *)

\* [A-Z0-9] under re.IGNORECASE
IsAlnum(c) == UpperChar(c) \in 65..90 \/ c \in 48..57

\* ^<prefix>[A-Z0-9]{least,}$ under re.IGNORECASE
MatchesCode(t, prefix, least) ==
    /\ StartsWith(Upper(t), prefix)
    /\ Len(t) - Len(prefix) >= least
    /\ \A i \in (Len(prefix) + 1)..Len(t) : IsAlnum(t[i])

\* GHN_PATTERN.match(t)
MatchesGHN(t) == MatchesCode(t, PfxGY, 4)

\* SPX_PATTERN.match(t)
MatchesSPX(t) == MatchesCode(t, PfxSPXVN, 6) \/ MatchesCode(t, PfxSPX, 6)

\* detect_tracking_carrier(code): "GHN", "SPX" or ""
detect_tracking_carrier(code) ==
    LET t == Upper(Strip(code))
    IN  IF MatchesGHN(t) THEN "GHN" ELSE IF MatchesSPX(t) THEN "SPX" ELSE ""

-----------------------------------------------------------------------------
(* tracking_service.py: literals *)

\* 'Shopee Express (SPX)'
SpxCarrier == <<83, 104, 111, 112, 101, 101, 32, 69, 120, 112, 114, 101, 115, 115, 32, 40, 83, 80, 88, 41>>
\* 'Khong goi uoc API SPX.'
SpxTransportStatus == <<75, 104, 244, 110, 103, 32, 103, 7885, 105, 32, 273, 432, 7907, 99, 32, 65, 80, 73, 32, 83, 80, 88, 46>>
\* 'https://spx.vn/track?'
SpxLinkPrefix == <<104, 116, 116, 112, 115, 58, 47, 47, 115, 112, 120, 46, 118, 110, 47, 116, 114, 97, 99, 107, 63>>
\* 'Khong lay uoc tracking SPX (retcode != 0).'
SpxRetcodeStatus == <<75, 104, 244, 110, 103, 32, 108, 7845, 121, 32, 273, 432, 7907, 99, 32, 116, 114, 97, 99, 107, 105, 110, 103, 32, 83, 80, 88, 32, 40, 114, 101, 116, 99, 111, 100, 101, 32, 33, 61, 32, 48, 41, 46>>
\* 'a lay du lieu nhung khong co record.'
SpxNoRecordStatus == <<272, 227, 32, 108, 7845, 121, 32, 100, 7919, 32, 108, 105, 7879, 117, 32, 110, 104, 432, 110, 103, 32, 107, 104, 244, 110, 103, 32, 99, 243, 32, 114, 101, 99, 111, 114, 100, 46>>
\* 'Giao Hang Nhanh (GHN)'
GhnCarrier == <<71, 105, 97, 111, 32, 72, 224, 110, 103, 32, 78, 104, 97, 110, 104, 32, 40, 71, 72, 78, 41>>
\* 'Khong goi uoc API GHN.'
GhnTransportStatus == <<75, 104, 244, 110, 103, 32, 103, 7885, 105, 32, 273, 432, 7907, 99, 32, 65, 80, 73, 32, 71, 72, 78, 46>>
\* 'https://donhang.ghn.vn/?order_code='
GhnLinkPrefix == <<104, 116, 116, 112, 115, 58, 47, 47, 100, 111, 110, 104, 97, 110, 103, 46, 103, 104, 110, 46, 118, 110, 47, 63, 111, 114, 100, 101, 114, 95, 99, 111, 100, 101, 61>>
\* 'GHN API tra loi (code != 200).'
GhnCodeStatus == <<71, 72, 78, 32, 65, 80, 73, 32, 116, 114, 7843, 32, 108, 7895, 105, 32, 40, 99, 111, 100, 101, 32, 33, 61, 32, 50, 48, 48, 41, 46>>
\* 'Khong ro trang thai'
GhnUnknownStatus == <<75, 104, 244, 110, 103, 32, 114, 245, 32, 116, 114, 7841, 110, 103, 32, 116, 104, 225, 105>>

-----------------------------------------------------------------------------
(* tracking_service.py: time formatting *)

\* "%02d" and "%04d"
Pad2(n) == <<48 + (n \div 10), 48 + (n % 10)>>
Pad4(n) == Pad2(n \div 100) \o Pad2(n % 100)

\* the civil date <<year, month, day>> of a day number counted from 1970-01-01
CivilFromDays(days) ==
    LET z == days + 719468
        era == z \div 146097
        doe == z - era * 146097
        yoe == (doe - (doe \div 1460) + (doe \div 36524) - (doe \div 146096)) \div 365
        doy == doe - (365 * yoe + (yoe \div 4) - (yoe \div 100))
        mp == (5 * doy + 2) \div 153
        d == doy - ((153 * mp + 2) \div 5) + 1
        m == IF mp < 10 THEN mp + 3 ELSE mp - 9
        y == yoe + era * 400 + (IF m <= 2 THEN 1 ELSE 0)
    IN  <<y, m, d>>

\* strftime("%d/%m/%Y %H:%M")
FormatDayTime(y, m, d, hh, mm) ==
    Pad2(d) \o <<47>> \o Pad2(m) \o <<47>> \o Pad4(y) \o <<32>> \o Pad2(hh) \o <<58>> \o Pad2(mm)

\* the value a record holds under a key, or NoValue; an actual_time is an
\* epoch number, NoValue stands for a missing or null one
NoValue == 0 - 1

\* _fmt_epoch(ts), with the process clock on UTC
FmtEpoch(ts) ==
    IF ts = NoValue THEN <<>>
    ELSE LET c == CivilFromDays(ts \div 86400)
             secs == ts % 86400
         IN  FormatDayTime(c[1], c[2], c[3], secs \div 3600, (secs % 3600) \div 60)

IsDigit(c) == c \in 48..57
Num2(s, i) == (s[i] - 48) * 10 + (s[i + 1] - 48)

DaysInMonth(y, m) ==
    IF m = 2 THEN (IF (y % 4 = 0 /\ y % 100 # 0) \/ y % 400 = 0 THEN 29 ELSE 28)
    ELSE IF m \in {4, 6, 9, 11} THEN 30 ELSE 31

\* _fmt_iso_z(s) on "YYYY-MM-DDTHH:MM:SS", with an optional ".fff" and an
\* optional "Z"; any other text does not parse and gives ""
FmtIsoZ(s) ==
    LET t0 == Strip(s)
        t == IF EndsWith(t0, <<90>>) THEN SubSeq(t0, 1, Len(t0) - 1) ELSE t0
        shape == /\ Len(t) \in {19, 23}
                 /\ \A i \in {1, 2, 3, 4, 6, 7, 9, 10, 12, 13, 15, 16, 18, 19} : IsDigit(t[i])
                 /\ t[5] = 45 /\ t[8] = 45 /\ t[11] = 84 /\ t[14] = 58 /\ t[17] = 58
                 /\ Len(t) = 23 => (t[20] = 46 /\ \A i \in 21..23 : IsDigit(t[i]))
        y == Num2(t, 1) * 100 + Num2(t, 3)
        m == Num2(t, 6)
        d == Num2(t, 9)
        hh == Num2(t, 12)
        mm == Num2(t, 15)
        ss == Num2(t, 18)
    IN  IF t0 = <<>> \/ ~shape THEN <<>>
        ELSE IF y < 1 \/ m \notin 1..12 \/ d \notin 1..DaysInMonth(y, m)
                \/ hh > 23 \/ mm > 59 \/ ss > 59 THEN <<>>
        ELSE FormatDayTime(y, m, d, hh, mm)

-----------------------------------------------------------------------------
(* tracking_service.py: fetch_tracking_spx and fetch_tracking_ghn.  The    *)
(* upstream answers with resp: [kind |-> "error", error] when the request  *)
(* or its JSON decoding raises, [kind |-> "json", j] otherwise.            *)

\* a or b, on text
OrText(a, b) == IF a # <<>> THEN a ELSE b

\* the events of the SPX records, in upstream order
RECURSIVE SpxEvents(_)
SpxEvents(records) ==
    IF records = <<>> THEN <<>>
    ELSE LET rec == Head(records)
             t == FmtEpoch(IF "actual_time" \in DOMAIN rec THEN rec.actual_time ELSE NoValue)
             detail == Strip(OrText(GetOr(rec, "buyer_description"), GetOr(rec, "description")))
             status == Strip(OrText(GetOr(rec, "tracking_name"), GetOr(rec, "milestone_name")))
         IN  (IF t # <<>> \/ status # <<>> \/ detail # <<>>
              THEN <<[time |-> t, status |-> status, detail |-> detail]>> ELSE <<>>)
             \o SpxEvents(Tail(records))

\* spx_tracking_link(spx_tn)
spx_tracking_link(spx_tn) == SpxLinkPrefix \o Upper(Strip(spx_tn))

\* ghn_tracking_link(order_code)
ghn_tracking_link(order_code) == GhnLinkPrefix \o Upper(Strip(order_code))

fetch_tracking_spx(spx_tn, resp) ==
    LET code == Upper(Strip(spx_tn))
        link == spx_tracking_link(code)
        failure(status, error) ==
            [ok |-> FALSE, carrier |-> SpxCarrier, code |-> code, current_status |-> status,
             events |-> <<>>, link |-> link, error |-> error]
    IN  IF resp.kind = "error" THEN failure(SpxTransportStatus, resp.error)
        ELSE IF resp.j.retcode # 0 THEN failure(SpxRetcodeStatus, resp.j.text)
        ELSE LET sls == GetOr(GetOr(resp.j, "data"), "sls_tracking_info")
                 events == SpxEvents(GetOr(sls, "records"))
                 current_status ==
                     IF events # <<>>
                     THEN Strip(OrText(events[1].detail, events[1].status))
                     ELSE <<>>
             IN  [ok |-> TRUE, carrier |-> SpxCarrier, code |-> code,
                  current_status |-> OrText(current_status, SpxNoRecordStatus),
                  events |-> events, link |-> link, raw_sls_tn |-> GetOr(sls, "sls_tn")]

\* the events of the GHN tracking logs, in upstream order
RECURSIVE GhnEvents(_)
GhnEvents(logs) ==
    IF logs = <<>> THEN <<>>
    ELSE LET lg == Head(logs)
             t == FmtIsoZ(GetOr(lg, "action_at"))
             status == Strip(OrText(GetOr(lg, "status_name"), GetOr(lg, "status")))
             detail == Strip(GetOr(GetOr(lg, "location"), "address"))
         IN  (IF t # <<>> \/ status # <<>> \/ detail # <<>>
              THEN <<[time |-> t, status |-> status, detail |-> detail]>> ELSE <<>>)
             \o GhnEvents(Tail(logs))

fetch_tracking_ghn(order_code, resp) ==
    LET code == Upper(Strip(order_code))
        link == ghn_tracking_link(code)
        failure(status, error) ==
            [ok |-> FALSE, carrier |-> GhnCarrier, code |-> code, current_status |-> status,
             events |-> <<>>, link |-> link, error |-> error]
    IN  IF resp.kind = "error" THEN failure(GhnTransportStatus, resp.error)
        ELSE IF resp.j.code # 200 THEN failure(GhnCodeStatus, resp.j.text)
        ELSE LET order_info == GetOr(GetOr(resp.j, "data"), "order_info")
                 current_status == OrText(Strip(GetOr(order_info, "status_name")),
                                          Strip(GetOr(order_info, "status")))
             IN  [ok |-> TRUE, carrier |-> GhnCarrier, code |-> code,
                  current_status |-> OrText(current_status, GhnUnknownStatus),
                  events |-> GhnEvents(GetOr(GetOr(resp.j, "data"), "tracking_logs")),
                  link |-> link,
                  from_address |-> Strip(GetOr(order_info, "from_address")),
                  to_address |-> Strip(GetOr(order_info, "to_address")),
                  to_name |-> Strip(GetOr(order_info, "to_name"))]

-----------------------------------------------------------------------------
(* telegram_bot.py: literals *)

\* ' Check MV'
BTN_CHECK == <<128230, 32, 67, 104, 101, 99, 107, 32, 77, 86, 272>>
\* ' Bot Check on Shopee\\n\\nBam nut ben duoi e bat au.'
StartMsg == <<9989, 32, 66, 111, 116, 32, 67, 104, 101, 99, 107, 32, 272, 417, 110, 32, 83, 104, 111, 112, 101, 101, 10, 10, 66, 7845, 109, 32, 110, 250, 116, 32, 98, 234, 110, 32, 100, 432, 7899, 105, 32, 273, 7875, 32, 98, 7855, 116, 32, 273, 7847, 117, 46>>
\* ' Gui Cookie theo inh dang:\\nSPC_ST=....\\n\\n Hoac gui *Ma van on* e xem hanh trinh:\\n- SPX / SPXVN... (Shopee Express)\\n- GY... (GHN)\\n\\n Cookie: toi a 10 dong (moi cookie 1 dong).'
AskMsg == <<127850, 32, 71, 7917, 105, 32, 67, 111, 111, 107, 105, 101, 32, 116, 104, 101, 111, 32, 273, 7883, 110, 104, 32, 100, 7841, 110, 103, 58, 10, 83, 80, 67, 95, 83, 84, 61, 46, 46, 46, 46, 10, 10, 128230, 32, 72, 111, 7863, 99, 32, 103, 7917, 105, 32, 42, 77, 227, 32, 118, 7853, 110, 32, 273, 417, 110, 42, 32, 273, 7875, 32, 120, 101, 109, 32, 104, 224, 110, 104, 32, 116, 114, 236, 110, 104, 58, 10, 45, 32, 83, 80, 88, 32, 47, 32, 83, 80, 88, 86, 78, 46, 46, 46, 32, 40, 83, 104, 111, 112, 101, 101, 32, 69, 120, 112, 114, 101, 115, 115, 41, 10, 45, 32, 71, 89, 46, 46, 46, 32, 40, 71, 72, 78, 41, 10, 10, 128161, 32, 67, 111, 111, 107, 105, 101, 58, 32, 116, 7889, 105, 32, 273, 97, 32, 49, 48, 32, 100, 242, 110, 103, 32, 40, 109, 7895, 105, 32, 99, 111, 111, 107, 105, 101, 32, 49, 32, 100, 242, 110, 103, 41, 46>>
\* ' OK, gui Cookie hoac MV e check tiep nhe!'
ContinueOkMsg == <<128257, 32, 79, 75, 44, 32, 103, 7917, 105, 32, 67, 111, 111, 107, 105, 101, 32, 104, 111, 7863, 99, 32, 77, 86, 272, 32, 273, 7875, 32, 99, 104, 101, 99, 107, 32, 116, 105, 7871, 112, 32, 110, 104, 233, 33>>
\* ' Ban chua gui gi ca. Gui lai giup minh nhe.'
RejectEmptyMsg == <<10060, 32, 66, 7841, 110, 32, 99, 104, 432, 97, 32, 103, 7917, 105, 32, 103, 236, 32, 99, 7843, 46, 32, 71, 7917, 105, 32, 108, 7841, 105, 32, 103, 105, 250, 112, 32, 109, 236, 110, 104, 32, 110, 104, 233, 46>>
\* ' ang check hanh trinh van on...'
AckTrackingMsg == <<9203, 32, 272, 97, 110, 103, 32, 99, 104, 101, 99, 107, 32, 104, 224, 110, 104, 32, 116, 114, 236, 110, 104, 32, 118, 7853, 110, 32, 273, 417, 110, 46, 46, 46>>
\* ' Khong lay uoc hanh trinh van on.\\nChi tiet: '
TrackingFailedPrefix == <<10060, 32, 75, 104, 244, 110, 103, 32, 108, 7845, 121, 32, 273, 432, 7907, 99, 32, 104, 224, 110, 104, 32, 116, 114, 236, 110, 104, 32, 118, 7853, 110, 32, 273, 417, 110, 46, 10, 67, 104, 105, 32, 116, 105, 7871, 116, 58, 32>>
\* ' Loi check van on: '
TrackingExceptionPrefix == <<10060, 32, 76, 7895, 105, 32, 99, 104, 101, 99, 107, 32, 118, 7853, 110, 32, 273, 417, 110, 58, 32>>
\* ' Toi a 10 cookie. Ban gui lai giup minh nhe (<=10 dong).'
RejectCountMsg == <<10060, 32, 84, 7889, 105, 32, 273, 97, 32, 49, 48, 32, 99, 111, 111, 107, 105, 101, 46, 32, 66, 7841, 110, 32, 103, 7917, 105, 32, 108, 7841, 105, 32, 103, 105, 250, 112, 32, 109, 236, 110, 104, 32, 110, 104, 233, 32, 40, 60, 61, 49, 48, 32, 100, 242, 110, 103, 41, 46>>
\* ' Khong nhan dien uoc *MV* va Cookie cung khong hop le.\\n\\n Ban hay gui:\\n Cookie ung dang: `SPC_ST=....`\\n Hoac MV: `SPXVN...` / `SPX...` / `GY...`\\n\\nChi tiet loi cookie:\\n'
RejectInvalidPrefix == <<10060, 32, 75, 104, 244, 110, 103, 32, 110, 104, 7853, 110, 32, 100, 105, 7879, 110, 32, 273, 432, 7907, 99, 32, 42, 77, 86, 272, 42, 32, 118, 224, 32, 67, 111, 111, 107, 105, 101, 32, 99, 361, 110, 103, 32, 107, 104, 244, 110, 103, 32, 104, 7907, 112, 32, 108, 7879, 46, 10, 10, 9989, 32, 66, 7841, 110, 32, 104, 227, 121, 32, 103, 7917, 105, 58, 10, 8226, 32, 67, 111, 111, 107, 105, 101, 32, 273, 250, 110, 103, 32, 100, 7841, 110, 103, 58, 32, 96, 83, 80, 67, 95, 83, 84, 61, 46, 46, 46, 46, 96, 10, 8226, 32, 72, 111, 7863, 99, 32, 77, 86, 272, 58, 32, 96, 83, 80, 88, 86, 78, 46, 46, 46, 96, 32, 47, 32, 96, 83, 80, 88, 46, 46, 46, 96, 32, 47, 32, 96, 71, 89, 46, 46, 46, 96, 10, 10, 67, 104, 105, 32, 116, 105, 7871, 116, 32, 108, 7895, 105, 32, 99, 111, 111, 107, 105, 101, 58, 10>>
\* '- Dong '
InvalidLinePrefix == <<45, 32, 68, 242, 110, 103, 32>>
\* ': sai inh dang (phai co SPC_ST=...)'
InvalidLineSuffix == <<58, 32, 115, 97, 105, 32, 273, 7883, 110, 104, 32, 100, 7841, 110, 103, 32, 40, 112, 104, 7843, 105, 32, 99, 243, 32, 83, 80, 67, 95, 83, 84, 61, 46, 46, 46, 41>>
\* ' ang check on hang...'
AckOrdersMsg == <<9203, 32, 272, 97, 110, 103, 32, 99, 104, 101, 99, 107, 32, 273, 417, 110, 32, 104, 224, 110, 103, 46, 46, 46>>
\* ' Cookie sai / het han hoac khong co du lieu on hop le.\\n Hay lay lai SPC_ST moi va thu lai.'
CredentialFailureMsg == <<10060, 32, 67, 111, 111, 107, 105, 101, 32, 115, 97, 105, 32, 47, 32, 104, 7871, 116, 32, 104, 7841, 110, 32, 104, 111, 7863, 99, 32, 107, 104, 244, 110, 103, 32, 99, 243, 32, 100, 7919, 32, 108, 105, 7879, 117, 32, 273, 417, 110, 32, 104, 7907, 112, 32, 108, 7879, 46, 10, 128073, 32, 72, 227, 121, 32, 108, 7845, 121, 32, 108, 7841, 105, 32, 83, 80, 67, 95, 83, 84, 32, 109, 7899, 105, 32, 118, 224, 32, 116, 104, 7917, 32, 108, 7841, 105, 46>>
\* ' Loi: '
OrderExceptionPrefix == <<10060, 32, 76, 7895, 105, 58, 32>>
\* ' *on vi*: '
TrkCarrierPrefix == <<128666, 32, 42, 272, 417, 110, 32, 118, 7883, 42, 58, 32>>
\* ' *MV*: `'
TrkCodePrefix == <<129534, 32, 42, 77, 86, 272, 42, 58, 32, 96>>
\* ' *Trang thai*: '
TrkStatusPrefix == <<128204, 32, 42, 84, 114, 7841, 110, 103, 32, 116, 104, 225, 105, 42, 58, 32>>
\* ' Tuyen: '
TrkRoutePrefix == <<128230, 32, 84, 117, 121, 7871, 110, 58, 32>>
\* '  '
TrkRouteArrow == <<32, 10140, 32>>
\* ' Nguoi nhan: '
TrkToNamePrefix == <<128100, 32, 78, 103, 432, 7901, 105, 32, 110, 104, 7853, 110, 58, 32>>
\* ' *Ma lien ket*: `'
TrkLinkedPrefix == <<128270, 32, 42, 77, 227, 32, 108, 105, 234, 110, 32, 107, 7871, 116, 42, 58, 32, 96>>
\* '\\n *Hanh trinh gan nhat:*'
TrkEventsTitle == <<10, 128205, 32, 42, 72, 224, 110, 104, 32, 116, 114, 236, 110, 104, 32, 103, 7847, 110, 32, 110, 104, 7845, 116, 58, 42>>
\* ' '
TrkBullet == <<8226, 32>>
\* ' - '
TrkDash == <<32, 45, 32>>
\* '... +'
TrkMorePrefix == <<8230, 32, 43>>
\* ' dong khac (xem link)'
TrkMoreSuffix == <<32, 100, 242, 110, 103, 32, 107, 104, 225, 99, 32, 40, 120, 101, 109, 32, 108, 105, 110, 107, 41>>
\* '\\n '
TrkLinkPrefix == <<10, 128279, 32>>

-----------------------------------------------------------------------------
(* telegram_bot.py: validation *)

MAX_COOKIES == 10
MIN_COOKIE_LEN == 20
MIN_VALUE_LEN == 15
max_events == 10

\* "spc_st="
SpcStMarker == <<115, 112, 99, 95, 115, 116, 61>>

\* SPC_ST_PATTERN.search(t): at some position, after the start of the text
\* or after ";" and whitespace, "SPC_ST=" in any case and then at least 15
\* characters other than ";"
SpcStSearch(t) ==
    \E p \in 1..Len(t) :
        /\ p + Len(SpcStMarker) - 1 <= Len(t)
        /\ \A i \in 1..Len(SpcStMarker) : LowerChar(t[p + i - 1]) = SpcStMarker[i]
        /\ p = 1 \/ \E q \in 1..(p - 1) : t[q] = 59 /\ \A r \in (q + 1)..(p - 1) : IsSpace(t[r])
        /\ p + Len(SpcStMarker) + MIN_VALUE_LEN - 1 <= Len(t)
        /\ \A i \in 0..(MIN_VALUE_LEN - 1) : t[p + Len(SpcStMarker) + i] # 59

is_probably_shopee_cookie(s) ==
    IF s = <<>> THEN FALSE
    ELSE IF Len(Strip(s)) < MIN_COOKIE_LEN THEN FALSE
    ELSE SpcStSearch(Strip(s))

\* _get_any(d, keys, default)
GetAny(d, keys, default) ==
    LET hit == {i \in 1..Len(keys) : keys[i] \in DOMAIN d /\ d[keys[i]] # <<>>}
    IN  IF hit = {} THEN default
        ELSE d[keys[CHOOSE i \in hit : \A j \in hit : i <= j]]

\* is_real_order taking any product for a named one
IsRealOrderAnyProduct(order) ==
    \/ GetAny(order, <<"order_id", "orderid", "id">>, <<>>) # <<>>
    \/ GetAny(order, <<"tracking_number", "tracking_no", "tracking">>, <<>>) # <<>>
    \/ ProductsOf(order) # <<>>

is_real_order(order) ==
    LET order_id == GetAny(order, <<"order_id", "orderid", "id">>, <<>>)
        tracking == GetAny(order, <<"tracking_number", "tracking_no", "tracking">>, <<>>)
        products == ProductsOf(order)
        has_product == IF products # <<>>
                       THEN GetAny(products[1], <<"name", "product_name", "title">>, <<>>) # <<>>
                       ELSE FALSE
    IN  order_id # <<>> \/ tracking # <<>> \/ has_product

\* the real orders among accs[1..n]
RECURSIVE CountReal(_, _)
CountReal(accs, n) ==
    IF n = 0 THEN 0
    ELSE LET orders == GetOr(accs[n], "orderDetails")
         IN  CountReal(accs, n - 1)
             + Cardinality({o \in 1..Len(orders) : is_real_order(orders[o])})

count_real_orders_from_api(d) ==
    CountReal(GetOr(d, "allOrderDetails"), Len(GetOr(d, "allOrderDetails")))

-----------------------------------------------------------------------------
(* telegram_bot.py: format_tracking_for_telegram *)

\* the "bullet" line of one event, or "" when the event is blank
EventLine(e) ==
    LET one == Join(TrkDash, NonEmpty(<<Strip(e.time), Strip(e.status), Strip(e.detail)>>))
    IN  IF one # <<>> THEN TrkBullet \o one ELSE <<>>

format_tracking_for_telegram(tdata) ==
    LET carrier == GetOr(tdata, "carrier")
        code == GetOr(tdata, "code")
        status == GetOr(tdata, "current_status")
        link == GetOr(tdata, "link")
        evs == GetOr(tdata, "events")
        shownN == MinOf(Len(evs), max_events)
        lines ==
            Opt(carrier, TrkCarrierPrefix \o carrier)
            \o Opt(code, TrkCodePrefix \o code \o Backtick)
            \o Opt(status, TrkStatusPrefix \o status)
            \o (IF GetOr(tdata, "from_address") # <<>> /\ GetOr(tdata, "to_address") # <<>>
                THEN <<TrkRoutePrefix \o tdata.from_address \o TrkRouteArrow \o tdata.to_address>>
                ELSE <<>>)
            \o Opt(GetOr(tdata, "to_name"), TrkToNamePrefix \o GetOr(tdata, "to_name"))
            \o Opt(GetOr(tdata, "raw_sls_tn"), TrkLinkedPrefix \o GetOr(tdata, "raw_sls_tn") \o Backtick)
            \o (IF evs # <<>>
                THEN <<TrkEventsTitle>>
                     \o NonEmpty([i \in 1..shownN |-> EventLine(evs[i])])
                     \o (IF Len(evs) > max_events
                         THEN <<TrkMorePrefix \o IntToStr(Len(evs) - max_events) \o TrkMoreSuffix>>
                         ELSE <<>>)
                ELSE <<>>)
            \o Opt(link, TrkLinkPrefix \o link)
    IN  Strip(Join(NL, lines))

-----------------------------------------------------------------------------
(* telegram_bot.py: what a handler does, as a sequence of events *)

\* update.message.reply_text(text[, reply_markup=continue_inline_keyboard()])
Reply(what, text, button) == [ev |-> "reply", what |-> what, text |-> text, button |-> button]

\* asyncio.to_thread(fn, arg)
Dispatched(fn, arg) == [ev |-> "dispatch", what |-> fn, text |-> arg, button |-> FALSE]

\* raw.replace(" ", "")
RemoveSpaces(s) == SelectSeq(s, LAMBDA c : c # 32)

\* [line.strip() for line in raw.splitlines() if line.strip()]
CookieLines(raw) == NonEmpty(StripAll(Split(raw, 10)))

\* len(cookies) > 11
TooManyOffByOne(cookies) == Len(cookies) > MAX_COOKIES + 1

\* len(cookies) > 10
TooMany(cookies) == Len(cookies) > MAX_COOKIES

\* the list "invalid": one line of text for every line that is no cookie
InvalidLines(cookies) ==
    NonEmpty([i \in 1..Len(cookies) |->
                IF ~is_probably_shopee_cookie(cookies[i])
                THEN InvalidLinePrefix \o IntToStr(i) \o InvalidLineSuffix
                ELSE <<>>])

\* one reply for every invalid line
InvalidRepliesPerLine(invalid) ==
    [i \in 1..Len(invalid) |-> Reply("reject_invalid", RejectInvalidPrefix \o invalid[i], FALSE)]

\* the reply to a batch with invalid lines
InvalidReplies(invalid) ==
    <<Reply("reject_invalid", RejectInvalidPrefix \o Join(NL, invalid), FALSE)>>

\* the lookup dispatched before its acknowledgment is sent
LookupEventsAckLast(ack, fn, arg) == <<Dispatched(fn, arg), Reply("ack", ack, FALSE)>>

\* the acknowledgment, then the lookup handed to a worker thread
LookupEvents(ack, fn, arg) == <<Reply("ack", ack, FALSE), Dispatched(fn, arg)>>

\* receive_input up to its first await of a lookup, or to its early return
ReceiveInputStart(text) ==
    LET raw == Strip(text)
        single == Strip(RemoveSpaces(raw))
        carrier == detect_tracking_carrier(single)
        cookies == CookieLines(raw)
        invalid == InvalidLines(cookies)
        rejected(events) == [lookup |-> "none", arg |-> <<>>, events |-> events]
    IN  IF raw = <<>>
        THEN rejected(<<Reply("reject_empty", RejectEmptyMsg, FALSE)>>)
        ELSE IF carrier = "SPX"
        THEN [lookup |-> "SPX", arg |-> single,
              events |-> LookupEvents(AckTrackingMsg, "fetch_tracking_spx", single)]
        ELSE IF carrier # ""
        THEN [lookup |-> "GHN", arg |-> single,
              events |-> LookupEvents(AckTrackingMsg, "fetch_tracking_ghn", single)]
        ELSE IF TooMany(cookies)
        THEN rejected(<<Reply("reject_count", RejectCountMsg, FALSE)>>)
        ELSE IF invalid # <<>>
        THEN rejected(InvalidReplies(invalid))
        ELSE [lookup |-> "orders", arg |-> Join(NL, cookies),
              events |-> LookupEvents(AckOrdersMsg, "fetch_orders", Join(NL, cookies))]

\* the replies that carry the rendered orders, the button on the last one
OrderReplies(msgs) ==
    [i \in 1..Len(msgs) |-> Reply("order_message", msgs[i], i = Len(msgs))]

\* receive_input after fetch_orders: resp is what the upstream answered
OrdersCompletion(resp) ==
    IF resp.kind = "error"
    THEN <<Reply("order_exception", OrderExceptionPrefix \o resp.error, TRUE)>>
    ELSE IF count_real_orders_from_api(resp.j) = 0
    THEN <<Reply("credential_failure", CredentialFailureMsg, TRUE)>>
    ELSE OrderReplies(format_orders_for_telegram(resp.j))

\* receive_input after fetch_tracking_spx / fetch_tracking_ghn; a malformed
\* answer makes the fetch function raise outside its own try block
TrackingCompletion(lookup, code, resp) ==
    IF resp.kind = "malformed"
    THEN <<Reply("tracking_exception", TrackingExceptionPrefix \o resp.error, TRUE)>>
    ELSE LET tdata == IF lookup = "SPX" THEN fetch_tracking_spx(code, resp)
                      ELSE fetch_tracking_ghn(code, resp)
         IN  IF ~tdata.ok
             THEN <<Reply("tracking_failed", TrackingFailedPrefix \o tdata.error, TRUE)>>
             ELSE <<Reply("tracking_result", format_tracking_for_telegram(tdata), TRUE)>>

-----------------------------------------------------------------------------
(* What the users send and what the upstreams answer *)

\* most updates waiting in the update queue
MaxQueue == 1
\* most lines of one text message (the limit is 10 cookies)
MaxLines == 11
\* most records of one tracking answer (the formatter shows 10 events)
MaxRecords == 11

\* "SPC_ST=" and 15 times the k-th letter: a plausible cookie
ValidCookie(k) == <<83, 80, 67, 95, 83, 84, 61>> \o Rep(96 + k, MIN_VALUE_LEN)
\* "SPC_ST=short"
ShortCookieLine == <<83, 80, 67, 95, 83, 84, 61, 115, 104, 111, 114, 116>>
\* n plausible cookies, one per line
CookieBatch(n) == Join(NL, [i \in 1..n |-> ValidCookie(i)])

Texts ==
    {<<32, 32>>,                                               \* "  "
     <<115, 112, 120, 118, 110, 49, 50, 51, 52, 53, 54>>,      \* "spxvn123456"
     <<71, 89, 32, 49, 50, 32, 51, 52>>,                       \* "GY 12 34"
     <<71, 89, 49, 50>>,                                       \* "GY12"
     CookieBatch(MAX_COOKIES), CookieBatch(MaxLines),
     \* "SPC_ST=short", a blank line, a plausible cookie, "SPC_ST:aaa..."
     ShortCookieLine \o <<10, 10>> \o ValidCookie(1) \o <<10>>
         \o <<83, 80, 67, 95, 83, 84, 58>> \o A(MIN_COOKIE_LEN),
     <<32, 120, 61, 49, 59, 32>> \o ValidCookie(1) \o <<10>>,  \* " x=1; SPC_ST=aaa...\n"
     BTN_CHECK}

\* "/start", "continue_check"
StartCommand == <<47, 115, 116, 97, 114, 116>>
CB_CONTINUE == <<99, 111, 110, 116, 105, 110, 117, 101, 95, 99, 104, 101, 99, 107>>

Updates ==
    {[kind |-> "text", text |-> t] : t \in Texts}
    \cup {[kind |-> "command", text |-> StartCommand], [kind |-> "callback", text |-> CB_CONTINUE]}

\* "E": the text of an exception
ErrText == <<69>>

BotPayloads ==
    {EmptyDict,
     [allOrderDetails |-> <<>>],
     [allOrderDetails |-> <<[cookie |-> ValidCookie(1), orderDetails |-> <<>>]>>],
     [allOrderDetails |-> <<[cookie |-> ValidCookie(1),
                            orderDetails |-> <<PlaceholderOrder, PlaceholderOrder>>]>>],
     [allOrderDetails |-> <<[cookie |-> ValidCookie(1), orderDetails |-> <<IdOnlyOrder>>]>>],
     [allOrderDetails |-> <<[cookie |-> ValidCookie(1),
                            orderDetails |-> <<PlaceholderOrder, [product_info |-> <<[title |-> <<97>>]>>]>>],
                           [cookie |-> ValidCookie(2), orderDetails |-> <<>>]>>],
     [allOrderDetails |-> <<[cookie |-> ValidCookie(1), orderDetails |-> <<LongOrder>>]>>]}

OrderResponses ==
    {[kind |-> "error", error |-> ErrText, j |-> EmptyDict]}
    \cup {[kind |-> "json", error |-> <<>>, j |-> d] : d \in BotPayloads}

\* record i of an SPX answer: full, without a description, blank, without a time
SpxRecord(i) ==
    CASE i % 4 = 1 -> [actual_time |-> 1700000000 + 86400 * i, buyer_description |-> <<32, 100, 95>>,
                       description |-> <<120>>, tracking_name |-> <<115>>]
      [] i % 4 = 2 -> [actual_time |-> 951782400 + 60 * i, milestone_name |-> <<109, 32>>]
      [] i % 4 = 3 -> [description |-> <<32, 32>>]
      [] OTHER     -> [description |-> <<120, 32, 121>>]

\* str(j) of an answer that carries an error code
JsonText == <<123, 125>>

\* the record lists of an SPX answer: none, one of every kind, and a single
\* record that carries a time and no text
SpxRecordLists ==
    {<<>>, [i \in 1..MaxRecords |-> SpxRecord(i)], <<[actual_time |-> 1700000000]>>}

SpxResponses ==
    {[kind |-> "error", error |-> ErrText, j |-> EmptyDict],
     [kind |-> "malformed", error |-> ErrText, j |-> EmptyDict],
     [kind |-> "json", error |-> <<>>, j |-> [retcode |-> 1, text |-> JsonText]]}
    \cup {[kind |-> "json", error |-> <<>>,
           j |-> [retcode |-> 0, text |-> JsonText,
                  data |-> [sls_tracking_info |->
                              [sls_tn |-> <<86, 78>>,
                               records |-> records]]]] :
            records \in SpxRecordLists}

\* log i of a GHN answer
GhnLog(i) ==
    CASE i % 3 = 1 -> [action_at |-> <<50, 48, 50, 54, 45, 48, 50, 45, 49, 48, 84, 49, 51, 58, 48, 53,
                                      58, 51, 50, 46, 57, 55, 52, 90>>,
                       status_name |-> <<115>>, location |-> [address |-> <<97, 95, 98>>]]
      [] i % 3 = 2 -> [action_at |-> <<110, 111, 119>>, status |-> <<100>>]
      [] OTHER     -> [action_at |-> <<50, 48, 50, 53, 45, 48, 50, 45, 50, 57, 84, 48, 48, 58, 48, 48,
                                      58, 48, 48>>]

GhnResponses ==
    {[kind |-> "error", error |-> ErrText, j |-> EmptyDict],
     [kind |-> "malformed", error |-> ErrText, j |-> EmptyDict],
     [kind |-> "json", error |-> <<>>, j |-> [code |-> 400, text |-> JsonText]]}
    \cup {[kind |-> "json", error |-> <<>>,
           j |-> [code |-> 200, text |-> JsonText,
                  data |-> [order_info |-> [status |-> <<100>>, from_address |-> <<97>>,
                                            to_address |-> <<98>>, to_name |-> <<110, 95>>],
                            tracking_logs |-> [i \in 1..n |-> GhnLog(i)]]]] :
            n \in {0, 3}}

ResponsesOf(lookup) ==
    IF lookup = "orders" THEN OrderResponses
    ELSE IF lookup = "SPX" THEN SpxResponses ELSE GhnResponses

-----------------------------------------------------------------------------
(* telegram_bot.py: main().  The Application is built without              *)
(* concurrent_updates and every handler is registered blocking, so the     *)
(* Application takes the next update of the queue only after the handler   *)
(* of the one before has returned.  Handlers of one group are tried in the *)
(* order they were added: CommandHandler("start"), the ConversationHandler *)
(* and the catch-all MessageHandler.                                       *)

\* Route with receive_input as the handler of every free text
RouteTextInAnyState(state, u) ==
    IF u.kind = "command" THEN "start"
    ELSE IF u.kind = "text"
    THEN (IF u.text = BTN_CHECK THEN "handle_check_button" ELSE "receive_input")
    ELSE (IF state = "WAIT_INPUT" /\ u.text = CB_CONTINUE THEN "continue_check_callback"
          ELSE "none")

\* the handler an update reaches, given the conversation state of its session
Route(state, u) ==
    IF u.kind = "command" THEN "start"
    ELSE IF u.kind = "text"
    THEN (IF u.text = BTN_CHECK THEN "handle_check_button"      \* entry point, allow_reentry
          ELSE IF state = "WAIT_INPUT" THEN "receive_input"
          ELSE "start")                                          \* catch-all outside the flow
    ELSE (IF state = "WAIT_INPUT" /\ u.text = CB_CONTINUE THEN "continue_check_callback"
          ELSE "none")                                           \* no handler takes the update

NoResponse == [kind |-> "none", error |-> <<>>, j |-> EmptyDict]

\* the record of the update being handled
Entry(u, handler, events, done, resp) ==
    [session |-> u.session, kind |-> u.kind, text |-> u.text, handler |-> handler,
     events |-> events, done |-> done, resp |-> resp]

\* polling fetched an update of session s
Arrive(s, u) ==
    /\ Len(queue) < MaxQueue
    /\ queue' = Append(queue, [session |-> s, kind |-> u.kind, text |-> u.text])
    /\ UNCHANGED <<conv, running, log, fmtVars>>

\* the Application can take the next update
CanProcess == queue # <<>> /\ running = NoTask

NextHandler == Route(conv[Head(queue).session], Head(queue))

\* start(): the welcome message; the conversation state is untouched
HandleStart ==
    /\ CanProcess /\ NextHandler = "start"
    /\ log' = Entry(Head(queue), "start", <<Reply("start", StartMsg, FALSE)>>, TRUE, NoResponse)
    /\ queue' = Tail(queue)
    /\ UNCHANGED <<conv, running, fmtVars>>

\* handle_check_button(): ask for input, return WAIT_INPUT
HandleCheckButton ==
    /\ CanProcess /\ NextHandler = "handle_check_button"
    /\ log' = Entry(Head(queue), "handle_check_button",
                    <<Reply("ask", AskMsg, FALSE)>>, TRUE, NoResponse)
    /\ conv' = [conv EXCEPT ![Head(queue).session] = "WAIT_INPUT"]
    /\ queue' = Tail(queue)
    /\ UNCHANGED <<running, fmtVars>>

\* continue_check_callback(): confirm, ask for input, return WAIT_INPUT
HandleContinue ==
    /\ CanProcess /\ NextHandler = "continue_check_callback"
    /\ log' = Entry(Head(queue), "continue_check_callback",
                    <<Reply("continue_ok", ContinueOkMsg, FALSE), Reply("ask", AskMsg, FALSE)>>,
                    TRUE, NoResponse)
    /\ conv' = [conv EXCEPT ![Head(queue).session] = "WAIT_INPUT"]
    /\ queue' = Tail(queue)
    /\ UNCHANGED <<running, fmtVars>>

\* no handler matches: the update is dropped
Unhandled ==
    /\ CanProcess /\ NextHandler = "none"
    /\ log' = Entry(Head(queue), "none", <<>>, TRUE, NoResponse)
    /\ queue' = Tail(queue)
    /\ UNCHANGED <<conv, running, fmtVars>>

\* receive_input returning WAIT_INPUT from the except branch of a lookup
ReceiveInputReturnStaysOnError(lookup, resp) ==
    IF lookup = "none" \/ resp.kind = "error" THEN "WAIT_INPUT" ELSE "END"

\* the state receive_input() returns: WAIT_INPUT from the three early
\* returns, ConversationHandler.END from every return after a lookup
ReceiveInputReturn(lookup, resp) ==
    IF lookup = "none" THEN "WAIT_INPUT" ELSE "END"

\* receive_input() rejects the text and returns WAIT_INPUT
ReceiveInputRejected ==
    /\ CanProcess /\ NextHandler = "receive_input"
    /\ ReceiveInputStart(Head(queue).text).lookup = "none"
    /\ log' = Entry(Head(queue), "receive_input",
                    ReceiveInputStart(Head(queue).text).events, TRUE, NoResponse)
    /\ conv' = [conv EXCEPT ![Head(queue).session] = ReceiveInputReturn("none", NoResponse)]
    /\ queue' = Tail(queue)
    /\ UNCHANGED <<running, fmtVars>>

\* receive_input() acknowledges, hands the lookup to a thread and awaits it
ReceiveInputLookup ==
    /\ CanProcess /\ NextHandler = "receive_input"
    /\ ReceiveInputStart(Head(queue).text).lookup # "none"
    /\ log' = Entry(Head(queue), "receive_input",
                    ReceiveInputStart(Head(queue).text).events, FALSE, NoResponse)
    /\ running' = [session |-> Head(queue).session,
                   lookup |-> ReceiveInputStart(Head(queue).text).lookup,
                   arg |-> ReceiveInputStart(Head(queue).text).arg]
    /\ queue' = Tail(queue)
    /\ UNCHANGED <<conv, fmtVars>>

\* the lookup returns or raises; receive_input() replies and returns END
LookupReturn(resp) ==
    /\ running # NoTask
    /\ resp \in ResponsesOf(running.lookup)
    /\ log' = [log EXCEPT
                 !.events = @ \o (IF running.lookup = "orders" THEN OrdersCompletion(resp)
                                  ELSE TrackingCompletion(running.lookup, running.arg, resp)),
                 !.done = TRUE,
                 !.resp = resp]
    /\ conv' = [conv EXCEPT ![running.session] = ReceiveInputReturn(running.lookup, resp)]
    /\ running' = NoTask
    /\ UNCHANGED <<queue, fmtVars>>

\* the Application handles the next update of the queue
ProcessUpdate ==
    \/ HandleStart
    \/ HandleCheckButton
    \/ HandleContinue
    \/ Unhandled
    \/ ReceiveInputRejected
    \/ ReceiveInputLookup

Init ==
    /\ InitBot
    /\ data = EmptyDict
    /\ messages = <<>>
    /\ fpc = "init"

Next ==
    \/ \E s \in Sessions, u \in Updates : Arrive(s, u)
    \/ ProcessUpdate
    \/ \E resp \in OrderResponses \cup SpxResponses \cup GhnResponses : LookupReturn(resp)

Spec == Init /\ [][Next]_vars

-----------------------------------------------------------------------------
(* Properties of the renderer (checked under SpecFmt) *)

\* "".join(parts)
RECURSIVE Flatten(_)
Flatten(parts) == IF Len(parts) = 0 THEN <<>> ELSE Head(parts) \o Flatten(Tail(parts))

AccountsOf(d) == GetOr(d, "allOrderDetails")
OrdersOf(account) == GetOr(account, "orderDetails")

\* C1: every message the renderer returns has at most 3500 characters.
Thm_C1_MessageWithinBudget ==
    fpc = "done" => \A i \in 1..Len(messages) : Len(messages[i]) <= MSG_BUDGET

\* an account's text exceeded the budget and was cut into several messages
Wit_C1_LongTextWasCut ==
    /\ fpc = "done"
    /\ \E k \in 1..Len(AccountsOf(data)) :
          /\ OrdersOf(AccountsOf(data)[k]) # <<>>
          /\ Len(FullText(AccountsOf(data)[k])) > 2 * MSG_BUDGET
    /\ \E i \in 1..Len(messages) : Len(messages[i]) = MSG_BUDGET

\* msgs is, account by account from account k on, a run of messages whose
\* concatenation is the account's rendered text (for an account without
\* orders: its one "no orders" message)
RECURSIVE MatchesFrom(_, _, _)
MatchesFrom(accounts, k, msgs) ==
    IF k > Len(accounts) THEN msgs = <<>>
    ELSE \E j \in 1..Len(msgs) :
            /\ IF OrdersOf(accounts[k]) = <<>>
               THEN j = 1 /\ msgs[1] = CookieLine(GetOr(accounts[k], "cookie")) \o NoOrdersLine
               ELSE Flatten(SubSeq(msgs, 1, j)) = FullText(accounts[k])
            /\ MatchesFrom(accounts, k + 1, SubSeq(msgs, j + 1, Len(msgs)))

\* C2: the messages emitted for an account with orders, concatenated in
\* order, are exactly the account's rendered text.
Thm_C2_ChunksConcatenateToFullText ==
    (fpc = "done" /\ AccountsOf(data) # <<>>) => MatchesFrom(AccountsOf(data), 1, messages)

\* two accounts were rendered, one of them into several messages
Wit_C2_TwoAccountsSeveralChunks ==
    /\ fpc = "done"
    /\ Len(AccountsOf(data)) = 2
    /\ \A k \in 1..2 : OrdersOf(AccountsOf(data)[k]) # <<>>
    /\ Len(messages) > 3

\* C3 (as claimed): every upstream text is escaped before it enters a
\* message.  The literals of the renderer hold no "_", so every "_" of a
\* message comes from an upstream field, and escaped it follows a "\".
Cex_C3_UpstreamTextEscaped ==
    fpc = "done" =>
        \A i \in 1..Len(messages) : \A j \in 1..Len(messages[i]) :
            messages[i][j] = 95 => (j > 1 /\ messages[i][j - 1] = 92)

\* the orders the renderer shows, account after account
RECURSIVE ShownOrders(_, _)
ShownOrders(accounts, n) ==
    IF n = 0 THEN <<>>
    ELSE ShownOrders(accounts, n - 1)
         \o SubSeq(OrdersOf(accounts[n]), 1,
                   MinOf(Len(OrdersOf(accounts[n])), max_orders_per_cookie))

\* the lines of everything that was emitted
OutputLines == Split(Flatten(messages), 10)

\* a line is the title of an order block
IsTitleLine(l) == StartsWith(l, Tail(OrderTitlePrefix))
\* a line shows one product, inline or numbered
IsProductLine(l) == StartsWith(l, ProductNumPrefix) \/ StartsWith(l, Tail(ProductInline))
\* a line is a "+N more" summary
IsSummaryLine(l) == EndsWith(l, MoreSuffix)

\* lines[a..b] that satisfy a test
CountLines(lines, a, b, Test(_)) == Cardinality({i \in a..b : Test(lines[i])})

IsIndividualLine(l) == IsProductLine(l) /\ ~IsSummaryLine(l)

\* C8: an order block shows min(N, 5) individual product lines; with N > 5
\* it holds exactly one summary line, which reports N - 5; with N <= 5 none.
Thm_C8_ProductCap ==
    fpc = "done" =>
        LET lines == OutputLines
            shown == ShownOrders(AccountsOf(data), Len(AccountsOf(data)))
            titles == {i \in 1..Len(lines) : IsTitleLine(lines[i])}
            \* the last line of the block that starts at line t
            last(t) == IF \E u \in titles : u > t
                       THEN (CHOOSE u \in titles : u > t /\ \A v \in titles : v > t => u <= v) - 1
                       ELSE Len(lines)
            \* the title line of the j-th block
            title(j) == CHOOSE t \in titles : Cardinality({u \in titles : u <= t}) = j
        IN  /\ Cardinality(titles) = Len(shown)
            /\ \A j \in 1..Len(shown) :
                  LET N == Len(ProductsOf(shown[j]))
                      a == title(j)
                      b == last(title(j))
                  IN  /\ CountLines(lines, a, b, IsIndividualLine) = MinOf(N, max_products_per_order)
                      /\ CountLines(lines, a, b, IsSummaryLine)
                            = (IF N > max_products_per_order THEN 1 ELSE 0)
                      /\ N > max_products_per_order =>
                            \E i \in a..b : EndsWith(lines[i], MoreLine(N - max_products_per_order))

\* an order with more products than the cap was rendered, and one with fewer
Wit_C8_OrderOverCapRendered ==
    /\ fpc = "done"
    /\ \E k \in 1..Len(AccountsOf(data)) :
          \E i \in 1..MinOf(Len(OrdersOf(AccountsOf(data)[k])), max_orders_per_cookie) :
              Len(ProductsOf(OrdersOf(AccountsOf(data)[k])[i])) > max_products_per_order
    /\ \E i \in 1..Len(OutputLines) : IsSummaryLine(OutputLines[i])

\* the lines that are a separator, in a list of lines
SeparatorLines(lines) == {i \in 1..Len(lines) : lines[i] = Separator}

\* the lines that end the block of an order: the title of the next block, or
\* the footer of the account
BlockStops(lines) ==
    {i \in 1..Len(lines) : IsTitleLine(lines[i]) \/ StartsWith(lines[i], Footer)}

Thm_C15_NoEmptyResult ==
    fpc = "done" =>
        /\ Len(messages) >= 1
        /\ \A i \in 1..Len(messages) : Len(messages[i]) >= 1

\* an account whose text is exactly twice the budget was rendered as two
\* full messages
Wit_C15_TextOfTwiceTheBudget ==
    /\ fpc = "done"
    /\ Len(AccountsOf(data)) = 1
    /\ OrdersOf(AccountsOf(data)[1]) # <<>>
    /\ Len(Flatten(messages)) = 2 * MSG_BUDGET
    /\ Len(messages) = 2
    /\ Len(messages[2]) = MSG_BUDGET

-----------------------------------------------------------------------------
(* Properties of the router (checked under Spec) *)

\* the replies among the events of the update handled last
Replies == SelectSeq(log.events, LAMBDA e : e.ev = "reply")
\* the lookups dispatched for it
Dispatches == SelectSeq(log.events, LAMBDA e : e.ev = "dispatch")

\* the text receive_input classifies, and its non-empty lines
RawOfLog == Strip(log.text)
LinesOfLog == CookieLines(RawOfLog)

\* the text is no tracking code
NotTrackingCode == detect_tracking_carrier(Strip(RemoveSpaces(RawOfLog))) = ""

\* C4: a text that is no tracking code and has more than 10 non-empty lines,
\* or a line that is no plausible cookie, dispatches no lookup and leaves
\* the session in WAIT_INPUT.
Thm_C4_RejectedBeforeAnyLookup ==
    LET lines == LinesOfLog
    IN  (/\ log.handler = "receive_input"
         /\ NotTrackingCode
         /\ \/ Len(lines) > MAX_COOKIES
            \/ \E i \in 1..Len(lines) : ~is_probably_shopee_cookie(lines[i]))
        => /\ log.done
           /\ Dispatches = <<>>
           /\ running = NoTask
           /\ conv[log.session] = "WAIT_INPUT"

\* 11 plausible cookies were sent and rejected for their number
Wit_C4_ElevenValidLinesRejected ==
    LET lines == LinesOfLog
    IN  /\ log.handler = "receive_input"
        /\ Len(lines) = MAX_COOKIES + 1
        /\ \A i \in 1..Len(lines) : is_probably_shopee_cookie(lines[i])
        /\ log.events = <<Reply("reject_count", RejectCountMsg, FALSE)>>

\* the update handled last was a lookup that ran to its end, and its last
\* reply carried the continue button
LookupCompletedWithButton ==
    /\ log.handler = "receive_input"
    /\ log.done
    /\ Dispatches # <<>>
    /\ log.events[Len(log.events)].button

\* C5 (as claimed): after a completed lookup the session is in END and the
\* continue callback moves it to WAIT_INPUT.
Cex_C5_ContinueReopensInput ==
    [][(/\ CanProcess
        /\ Head(queue).kind = "callback"
        /\ Head(queue).session = log.session
        /\ LookupCompletedWithButton
        /\ conv[log.session] = "END"
        /\ queue' = Tail(queue))
       => conv'[log.session] = "WAIT_INPUT"]_vars

\* no order of the answer has an ID, a tracking code or a named first product
NoRealOrder(d) ==
    \A a \in 1..Len(AccountsOf(d)) : \A o \in 1..Len(OrdersOf(AccountsOf(d)[a])) :
        LET order == OrdersOf(AccountsOf(d)[a])[o]
        IN  /\ Get(order, <<"order_id", "orderid", "id">>, <<>>) = <<>>
            /\ Get(order, <<"tracking_number", "tracking_no", "tracking">>, <<>>) = <<>>
            /\ \/ ProductsOf(order) = <<>>
               \/ Get(ProductsOf(order)[1], <<"name", "product_name", "title">>, <<>>) = <<>>

\* the order lookup of the update handled last answered without an error
OrdersAnswered ==
    /\ log.handler = "receive_input"
    /\ log.done
    /\ Dispatches # <<>>
    /\ Dispatches[1].what = "fetch_orders"
    /\ log.resp.kind = "json"

\* C6: when the order lookup succeeds and the answer holds no real order,
\* receive_input sends the credential-failure message and nothing else
\* after the acknowledgment: no order message, no lookup-error message.
Thm_C6_NoRealOrderIsCredentialFailure ==
    (OrdersAnswered /\ NoRealOrder(log.resp.j))
    => Replies = <<Reply("ack", AckOrdersMsg, FALSE),
                   Reply("credential_failure", CredentialFailureMsg, TRUE)>>

\* an answer with an account that holds only placeholder orders was handled
Wit_C6_PlaceholderBatchHandled ==
    /\ OrdersAnswered
    /\ NoRealOrder(log.resp.j)
    /\ \E a \in 1..Len(AccountsOf(log.resp.j)) : OrdersOf(AccountsOf(log.resp.j)[a]) # <<>>
    /\ Replies[Len(Replies)].what = "credential_failure"

\* receive_input ended on a failure: the input was rejected, the lookup
\* raised, the tracking answer carried an error, or no order was real
FailurePath ==
    /\ log.handler = "receive_input"
    /\ log.done
    /\ \/ Dispatches = <<>>
       \/ log.resp.kind \in {"error", "malformed"}
       \/ /\ Dispatches[1].what = "fetch_tracking_spx"
          /\ log.resp.kind = "json" /\ log.resp.j.retcode # 0
       \/ /\ Dispatches[1].what = "fetch_tracking_ghn"
          /\ log.resp.kind = "json" /\ log.resp.j.code # 200
       \/ OrdersAnswered /\ NoRealOrder(log.resp.j)

\* the replies that report a failure
FailureKinds ==
    {"reject_empty", "reject_count", "reject_invalid", "order_exception",
     "tracking_failed", "tracking_exception", "credential_failure"}

\* C7 (as claimed): every failure path produces exactly one message.
Cex_C7_FailureSendsOneMessage == FailurePath => Len(Replies) = 1

\* C7 (amended): every failure path produces exactly one failure message,
\* alone when the input was rejected, after the acknowledgment and nothing
\* else when a lookup was dispatched.
Thm_C7_FailureSendsOneFailureMessage ==
    FailurePath =>
        IF Dispatches = <<>>
        THEN Len(Replies) = 1 /\ Replies[1].what \in FailureKinds
        ELSE /\ Len(Replies) = 2
             /\ Replies[1].what = "ack"
             /\ Replies[2].what \in FailureKinds

\* a text with two invalid lines was rejected with one message naming both,
\* (the other witness states are the failures after a dispatched lookup)
Wit_C7_TwoInvalidLinesOneMessage ==
    /\ FailurePath
    /\ Dispatches = <<>>
    /\ Len(InvalidLines(LinesOfLog)) = 2
    /\ Replies = <<Reply("reject_invalid",
                         RejectInvalidPrefix \o Join(NL, InvalidLines(LinesOfLog)), FALSE)>>

\* C9: a lookup is dispatched only right after the acknowledgment, which is
\* the first event; every other reply comes after the dispatch; a handler
\* that dispatches nothing sends no acknowledgment.
Thm_C9_AckBeforeLookup ==
    log.handler = "receive_input" =>
        /\ \A i \in 1..Len(log.events) :
              log.events[i].ev = "dispatch" =>
                  /\ i = 2
                  /\ log.events[1].ev = "reply"
                  /\ log.events[1].what = "ack"
        /\ \A i \in 1..Len(log.events) :
              (log.events[i].ev = "reply" /\ log.events[i].what # "ack") =>
                  (Dispatches = <<>> \/ i > 2)
        /\ Dispatches = <<>> => \A i \in 1..Len(log.events) : log.events[i].what # "ack"
        /\ ~log.done => Dispatches # <<>>

\* a GHN lookup was acknowledged, dispatched and answered
Wit_C9_GhnLookupAnswered ==
    /\ log.handler = "receive_input"
    /\ log.done
    /\ Len(log.events) = 3
    /\ log.events[2] = Dispatched("fetch_tracking_ghn", <<71, 89, 49, 50, 51, 52>>)
    /\ log.events[3].what = "tracking_result"

\* C10 (as claimed): while the lookup of one session is pending, an update
\* of another session that waits in the queue can be handled.
Cex_C10_OtherSessionNotDelayed ==
    (/\ running # NoTask
     /\ queue # <<>>
     /\ Head(queue).session # running.session)
    => ENABLED ProcessUpdate

\* C11: a receive_input that dispatched a lookup ends with the session in
\* END, whatever the lookup answered; one that rejected the text ends in
\* WAIT_INPUT; a session is in no other state.
Thm_C11_StateNeverDangling ==
    /\ \A s \in Sessions : conv[s] \in {"END", "WAIT_INPUT"}
    /\ (log.handler = "receive_input" /\ log.done) =>
          conv[log.session] = (IF Dispatches # <<>> THEN "END" ELSE "WAIT_INPUT")

\* an order lookup raised, the failure was reported and the session is in END
Wit_C11_RaisedLookupEndsInEnd ==
    /\ log.handler = "receive_input"
    /\ log.done
    /\ Dispatches # <<>>
    /\ Dispatches[1].what = "fetch_orders"
    /\ log.resp.kind = "error"
    /\ Replies[Len(Replies)].what = "order_exception"
    /\ conv[log.session] = "END"

\* the SPX lookup of the update handled last answered with retcode 0
SpxAnswered ==
    /\ log.handler = "receive_input"
    /\ log.done
    /\ Dispatches # <<>>
    /\ Dispatches[1].what = "fetch_tracking_spx"
    /\ log.resp.kind = "json"
    /\ log.resp.j.retcode = 0

\* what fetch_tracking_spx made of that answer
SpxResult == fetch_tracking_spx(Dispatches[1].text, log.resp)

\* C12 (as claimed): the current status of a successful SPX result is the
\* detail of the first event, or its status when it has no detail, and it
\* is the "no record" text exactly when the event list is empty.
Cex_C12_NoRecordIffNoEvents ==
    SpxAnswered =>
        LET r == SpxResult
        IN  /\ r.events # <<>> =>
                  r.current_status = (IF r.events[1].detail # <<>> THEN r.events[1].detail
                                      ELSE r.events[1].status)
            /\ (r.current_status = SpxNoRecordStatus) <=> (r.events = <<>>)

\* the Application takes a free text of a session that is in END
TakesFreeTextInEnd ==
    /\ CanProcess
    /\ Head(queue).kind = "text"
    /\ Head(queue).text # BTN_CHECK
    /\ conv[Head(queue).session] = "END"
    /\ queue' = Tail(queue)

\* C14: a lookup starts only for a session that is in WAIT_INPUT; a free
\* text of a session in END yields the start message alone, starts no
\* lookup and leaves the session in END.
Thm_C14_LookupOnlyWhileAwaitingInput ==
    [][/\ (running' # NoTask /\ running' # running) =>
              conv[running'.session] = "WAIT_INPUT"
       /\ TakesFreeTextInEnd =>
              /\ log'.session = Head(queue).session
              /\ log'.text = Head(queue).text
              /\ log'.events = <<Reply("start", StartMsg, FALSE)>>
              /\ log'.done
              /\ running' = NoTask
              /\ conv' = conv]_vars

\* a well-formed tracking code sent in END was answered by the start message
Wit_C14_TrackingCodeInEndGetsStart ==
    /\ log.handler = "start"
    /\ log.kind = "text"
    /\ detect_tracking_carrier(Strip(RemoveSpaces(Strip(log.text)))) # ""
    /\ log.events = <<Reply("start", StartMsg, FALSE)>>
    /\ conv[log.session] = "END"
    /\ running = NoTask

=============================================================================
